---------------------------- MODULE Spec2Model ----------------------------
(***************************************************************************)
(* Incremental build engine of the static site generator (autobuild.py,   *)
(* generator.py, parser.py, config.py).                                    *)
(*                                                                         *)
(* The state is the disk (markdown sources, theme dependencies, the        *)
(* manifest file, the output tree _site) and the local variables of one   *)
(* call of build_site().  A run of build_site() is a sequence of steps:    *)
(* StartBuild, one ProcessDoc per markdown file, Reconcile, one            *)
(* GeneratePost per queued post, GenerateAggregates, SaveManifest, Exit.   *)
(* Between runs the environment edits files and the calendar day passes.   *)
(*                                                                         *)
(* Representation.                                                         *)
(*  - A file's bytes are a content id: 0 absent, -1 present but            *)
(*    unreadable, n >= 1 the bytes Contents[n] (markdown) or version n     *)
(*    (theme file).                                                        *)
(*  - A path or link is the sequence of its '/'-separated segments, each   *)
(*    segment a pair <<stem, extension>>: "posts/s1.html" is               *)
(*    << <<"posts","">>, <<"s1",".html">> >>.  split('/') and os.path.join *)
(*    are then concatenations of segment sequences.                        *)
(*  - A date is its day number; '%Y-%m-%d' formatting is one-to-one on it. *)
(*  - A Python dict is a function; a missing key is a missing domain       *)
(*    element; {} is the function with the empty domain.                   *)
(***************************************************************************)
EXTENDS Integers, Sequences, FiniteSets, TLC

(***************************************************************************)
(* Bounds of the model.                                                    *)
(***************************************************************************)
\* number of environment changes (file edits, day changes) in a behaviour
MaxEdits == 2
\* number of I/O faults (failed render, failed delete, failed save, kill)
MaxFaults == 1

(***************************************************************************)
(* config.py                                                               *)
(***************************************************************************)
BUILD_DIR == <<"_site", "">>
POSTS_DIR_NAME == "posts"
TAGS_DIR_NAME == "tags"
ABOUT_PAGE == "about.md"

EmptyDict == [k \in {} |-> 0]
Get(d, k, default) == IF k \in DOMAIN d THEN d[k] ELSE default
Put(d, k, v) == [x \in DOMAIN d \cup {k} |-> IF x = k THEN v ELSE d[x]]
Range(s) == {s[i] : i \in DOMAIN s}

(***************************************************************************)
(* The markdown directory: the file names glob can return, in the order    *)
(* it returns them, and the bytes each may hold.                           *)
(***************************************************************************)
MdFiles == <<"404.md", "a.md", "b.md">>
Paths == Range(MdFiles)

\* os.path.splitext(os.path.basename(md_file))[0], tabulated on MdFiles
FileStem(p) == CASE p = "404.md" -> "404" [] p = "a.md" -> "a" [] OTHER -> "b"

\* str.title() of slug.replace('-', ' '), tabulated on the slugs of the model
TitleCase(s) ==
  CASE s = "a" -> "A" [] s = "b" -> "B" [] s = "s1" -> "S1" [] s = "s2" -> "S2"
    [] s = "about" -> "About" [] OTHER -> s

\* The front matter of the byte strings of the model.  slug "", title "" and
\* date 0 stand for a front matter without that key; hidden is the value of
\* the key 'hidden' (FALSE also when absent), status "" an absent key.
Contents == <<
  [slug |-> "s1",    title |-> "T1", date |-> 1, tags |-> <<>>,         hidden |-> FALSE, status |-> "",      body |-> 1],
  [slug |-> "s1",    title |-> "T1", date |-> 1, tags |-> <<>>,         hidden |-> FALSE, status |-> "",      body |-> 2],
  [slug |-> "s2",    title |-> "T1", date |-> 1, tags |-> <<>>,         hidden |-> FALSE, status |-> "",      body |-> 1],
  [slug |-> "s1",    title |-> "T2", date |-> 1, tags |-> <<"y", "x">>, hidden |-> FALSE, status |-> "",      body |-> 1],
  [slug |-> "s1",    title |-> "T1", date |-> 1, tags |-> <<>>,         hidden |-> TRUE,  status |-> "",      body |-> 1],
  [slug |-> "about", title |-> "T1", date |-> 1, tags |-> <<>>,         hidden |-> TRUE,  status |-> "",      body |-> 1],
  [slug |-> "404",   title |-> "T1", date |-> 1, tags |-> <<>>,         hidden |-> FALSE, status |-> "",      body |-> 1],
  [slug |-> "",      title |-> "",   date |-> 0, tags |-> <<>>,         hidden |-> FALSE, status |-> "",      body |-> 1],
  [slug |-> "s2",    title |-> "T3", date |-> 2, tags |-> <<"x">>,      hidden |-> FALSE, status |-> "draft", body |-> 1],
  [slug |-> "s2",    title |-> "T4", date |-> 2, tags |-> <<"x">>,      hidden |-> FALSE, status |-> "",      body |-> 1] >>

\* the states a markdown file of the model may be in
Variants(p) ==
  CASE p = "404.md" -> {-1, 0, 8}
    [] p = "a.md"   -> {-1, 0} \cup (DOMAIN Contents \ {10})
    [] OTHER        -> {0, 1, 10}

(***************************************************************************)
(* The theme dependency set: the stylesheet (hash kept in 'static_files'), *)
(* base.html and CORE_DEPENDENCIES (hashes kept in 'templates').  Of the   *)
(* eight CORE_DEPENDENCIES, which one loop treats alike, the model keeps   *)
(* the running script and one template.                                    *)
(***************************************************************************)
css_source == "assets/style.css"
base_template_source == "templates/base.html"
CORE_DEPENDENCIES == <<"autobuild.py", "templates/post.html">>
ThemeFiles == {css_source, base_template_source} \cup Range(CORE_DEPENDENCIES)

\* the states a theme dependency of the model may be in; the running script
\* and the base template, without which nothing renders, exist and can be read
ThemeVariants(t) ==
  CASE t = css_source -> {0, 1, 2}
    [] t = "templates/post.html" -> {-1, 0, 1}
    [] OTHER -> {1, 2}

\* os.path.exists
Exists(f) == f # 0
Readable(f) == f >= 1

\* get_full_content_hash: the SHA-256 digest of the bytes, "" (here 0) when
\* the file cannot be opened.  Digests are one-to-one on the bytes.
get_full_content_hash(f) == IF Readable(f) THEN 1000 + f ELSE 0


(***************************************************************************)
(* parser.py                                                               *)
(***************************************************************************)
\* The metadata dict: keys is the set of keys it holds.
\* get_metadata_and_content returns {} for a file it cannot read; otherwise
\* date defaults to date.today(), slug to the file name, title to the slug.
get_metadata_and_content(p, f, day) ==
  IF ~Readable(f)
  THEN [keys |-> {}, slug |-> "", title |-> "", date |-> 0, tags |-> <<>>,
        hidden |-> FALSE, status |-> ""]
  ELSE LET c == Contents[f]
           slug == IF c.slug # "" THEN c.slug ELSE FileStem(p)
       IN  [keys   |-> {"date", "tags", "slug", "title"},
            slug   |-> slug,
            title  |-> IF c.title # "" THEN c.title ELSE TitleCase(slug),
            date   |-> IF c.date # 0 THEN c.date ELSE day,
            tags   |-> c.tags,
            hidden |-> c.hidden,
            status |-> c.status]

\* tag_to_slug, tabulated on the tags of the model (lower case, no blanks)
tag_to_slug(t) == t

(***************************************************************************)
(* Links and output locations                                              *)
(***************************************************************************)
INDEX_HTML == <<"index", ".html">>
LINK_404 == << <<"404", ".html">> >>
LINK_HIDDEN == << <<"hidden", "">> >>
NoLink == << >>

\* autobuild.py: os.path.join(config.POSTS_DIR_NAME, f"{slug}.html")
PostLink(slug) == << <<POSTS_DIR_NAME, "">>, <<slug, ".html">> >>

\* autobuild.py, both cleanups:
\* os.path.join(config.BUILD_DIR, *link.strip('/').split('/'))
CleanupPath(link) == <<BUILD_DIR>> \o link

\* generator.generate_post_page: relative_link[:-5] when it ends in '.html',
\* joined to BUILD_DIR
PostOutputDir(link) ==
  LET n == Len(link)
      clean_name == IF link[n][2] = ".html"
                    THEN [link EXCEPT ![n] = <<link[n][1], "">>]
                    ELSE link
  IN  <<BUILD_DIR>> \o clean_name

\* generator.generate_page_html: os.path.join(config.BUILD_DIR, page_id)
PageOutputDir(page_id) == <<BUILD_DIR, <<page_id, "">> >>

\* generator.generate_tag_page
TagOutputDir(tag) == <<BUILD_DIR, <<TAGS_DIR_NAME, "">>, <<tag_to_slug(tag), "">> >>

(***************************************************************************)
(* The output tree: a function from the paths that exist to what is there. *)
(* A page holds what it was rendered from: the digest of the document's    *)
(* bytes, the links of its previous/next navigation, and for a list page   *)
(* the links it lists.                                                     *)
(***************************************************************************)
DirNode == [kind |-> "dir", hash |-> 0, prev |-> NoLink, next |-> NoLink, list |-> <<>>]
PageNode(h, prev, next) == [kind |-> "file", hash |-> h, prev |-> prev, next |-> next, list |-> <<>>]
ListNode(links) == [kind |-> "file", hash |-> 0, prev |-> NoLink, next |-> NoLink, list |-> links]

IsPrefix(a, b) == Len(a) <= Len(b) /\ SubSeq(b, 1, Len(a)) = a
exists(fs, path) == path \in DOMAIN fs
isdir(fs, path) == path \in DOMAIN fs /\ fs[path].kind = "dir"
\* os.makedirs(path, exist_ok=True)
makedirs(fs, path) ==
  [q \in DOMAIN fs \cup {SubSeq(path, 1, i) : i \in 1..Len(path)} |->
     IF q \in DOMAIN fs THEN fs[q] ELSE DirNode]
\* shutil.rmtree(path)
rmtree(fs, path) == [q \in {x \in DOMAIN fs : ~IsPrefix(path, x)} |-> fs[q]]
\* os.remove(path)
remove(fs, path) == [q \in DOMAIN fs \ {path} |-> fs[q]]
\* open(path, 'w').write(...)
write(fs, path, node) == Put(fs, path, node)

(***************************************************************************)
(* Manifest                                                                *)
(***************************************************************************)
NewManifest == [posts |-> EmptyDict, static_files |-> EmptyDict, templates |-> EmptyDict]

\* The posts of new_manifest at the start of a run: empty, whatever was loaded
NewPosts_CarryOver(old) == Get(old, "posts", EmptyDict)

NewPosts(old) == EmptyDict

\* load_manifest: the JSON of the file, {} when it is missing or malformed
\* The manifest file is "missing", "ok" (the JSON text of data), "corrupt" (a
\* text cut short, which json.load rejects with JSONDecodeError) or
\* "undecodable" (cut short inside a multi-byte character: the bytes are not
\* UTF-8 and reading them raises UnicodeDecodeError, which is not caught).
load_manifest(file) == IF file.state = "ok" THEN file.data ELSE EmptyDict
LoadRaises(file) == file.state = "undecodable"

\* what a write of the manifest that is cut short leaves in the file
CutShort == {"corrupt", "undecodable"}

\* a manifest written by an earlier version of the tool, which recorded
\* neither links nor theme dependencies
LegacyManifest == [posts |-> ("a.md" :> [hash |-> get_full_content_hash(1)])]

(***************************************************************************)
(* State                                                                   *)
(***************************************************************************)
VARIABLES
  md,                 \* markdown directory: file name -> bytes
  theme,              \* theme dependency -> bytes
  manifestFile,       \* .build_manifest.json: [state, data, day]
  site,               \* the output tree under BUILD_DIR
  today,              \* date.today()
  edits,              \* environment changes so far
  faults,             \* I/O faults so far
  clean,              \* no source or theme edit since the manifest file was saved
  prevRun,            \* how the last run went
  pc,                 \* position of build_site: idle, docs, posts, save, done, aborted
  todo,               \* md_files still to be processed by the document loop
  old_manifest,       \* build_site locals, named as in the code
  new_manifest,
  theme_changed,
  posts_data_changed,
  posts_to_build,
  parsed_posts,
  queue,              \* posts_to_build_all still to be generated
  obs                 \* what the run did: calls and decisions, for the properties

disk == <<md, theme, manifestFile, site, today>>
locals == <<todo, old_manifest, new_manifest, theme_changed, posts_data_changed,
            posts_to_build, parsed_posts, queue>>
vars == <<md, theme, manifestFile, site, today, edits, faults, clean, prevRun, pc, todo,
          old_manifest, new_manifest, theme_changed, posts_data_changed,
          posts_to_build, parsed_posts, queue, obs>>

NoObs ==
  [cleanStart |-> FALSE,      \* clean, at the start of the run
   prevDay    |-> 0,          \* day the loaded manifest file was written
   needs_full_build |-> EmptyDict,  \* per document, as classified
   metadata_changed |-> EmptyDict,  \* per regular post, as classified
   rendered   |-> <<>>,       \* documents passed to a page renderer, in order
   written    |-> {},         \* <<document, output file>> written by a page renderer
   attempted  |-> {},         \* <<manifest key, path>> a cleanup was run for
   removed    |-> {},         \* <<manifest key, path>> a cleanup deleted
   deleteFailed |-> {},       \* <<manifest key, path>> whose deletion raised
   aggregates |-> FALSE,      \* the aggregate renderers were invoked
   aggCalls   |-> <<>>,       \* the aggregate renderers invoked, with their arguments
   saved      |-> FALSE,      \* save_manifest wrote the file
   loaded     |-> "",         \* state of the manifest file at the start of the run
   raised     |-> "",         \* what ended the run early
   prevRun    |-> [outcome |-> "", undeleted |-> {}, shared |-> FALSE]]  \* prevRun when the run started

\* the output tree that earlier version left: a post written as the flat file
\* posts/<slug>.html (the pattern the cleanups still handle)
LegacySite ==
  write(makedirs(EmptyDict, <<BUILD_DIR, <<POSTS_DIR_NAME, "">> >>),
        CleanupPath(PostLink("s1")),
        PageNode(get_full_content_hash(1), NoLink, NoLink))

\* a fresh checkout, or an installation upgraded from the earlier version
InitInstallations ==
  { [manifest |-> [state |-> "missing", data |-> EmptyDict, day |-> 0],
     site     |-> EmptyDict],
    [manifest |-> [state |-> "ok", data |-> LegacyManifest, day |-> 0],
     site     |-> LegacySite] }

Init ==
  /\ md = [p \in Paths |-> CASE p = "404.md" -> 8 [] p = "a.md" -> 1 [] OTHER -> 10]
  /\ theme = [t \in ThemeFiles |-> 1]
  /\ \E inst \in InitInstallations :
       manifestFile = inst.manifest /\ site = inst.site
  /\ today = 1
  /\ edits = 0
  /\ faults = 0
  /\ clean = FALSE
  /\ pc = "idle"
  /\ todo = <<>>
  /\ old_manifest = EmptyDict
  /\ new_manifest = NewManifest
  /\ theme_changed = FALSE
  /\ posts_data_changed = FALSE
  /\ posts_to_build = <<>>
  /\ parsed_posts = <<>>
  /\ queue = <<>>
  /\ obs = NoObs
  /\ prevRun = [outcome |-> "none", undeleted |-> {}, shared |-> FALSE]

(***************************************************************************)
(* The environment, between two runs                                       *)
(***************************************************************************)
\* a markdown file is created, edited, deleted or made unreadable
EditDoc(p, v) ==
  /\ pc = "idle"
  /\ edits < MaxEdits
  /\ v \in Variants(p)
  /\ v # md[p]
  /\ md' = [md EXCEPT ![p] = v]
  /\ edits' = edits + 1
  /\ clean' = FALSE
  /\ UNCHANGED <<prevRun, theme, manifestFile, site, today, faults, pc, locals, obs>>

\* a theme dependency is created, edited, deleted or made unreadable
EditTheme(t, v) ==
  /\ pc = "idle"
  /\ edits < MaxEdits
  /\ v \in ThemeVariants(t)
  /\ v # theme[t]
  /\ theme' = [theme EXCEPT ![t] = v]
  /\ edits' = edits + 1
  /\ clean' = FALSE
  /\ UNCHANGED <<prevRun, md, manifestFile, site, today, faults, pc, locals, obs>>

\* midnight passes
TickDay ==
  /\ pc = "idle"
  /\ edits < MaxEdits
  /\ today' = today + 1
  /\ edits' = edits + 1
  /\ UNCHANGED <<prevRun, md, theme, manifestFile, site, faults, clean, pc, locals, obs>>

(***************************************************************************)
(* build_site [1/5], [2/5]: load the manifest, check the theme             *)
(***************************************************************************)
\* mutant: the os.path.exists test left out
DepChanged_NoExistsCheck(old, bucket, t, f) ==
  LET stored == Get(old, bucket, EmptyDict)
  IN  t \notin DOMAIN stored \/ stored[t] # get_full_content_hash(f)

\* mutant: a dependency the old manifest has no hash for counts as unchanged
DepChanged_StoredOnly(old, bucket, t, f) ==
  /\ Exists(f)
  /\ LET stored == Get(old, bucket, EmptyDict)
     IN  t \in DOMAIN stored /\ stored[t] # get_full_content_hash(f)

\* one dependency of the theme check: skipped when the path does not exist,
\* changed when its digest differs from the one stored (None when not stored)
DepChanged(old, bucket, t, f) ==
  /\ Exists(f)
  /\ LET stored == Get(old, bucket, EmptyDict)
     IN  t \notin DOMAIN stored \/ stored[t] # get_full_content_hash(f)

\* mutant: the stylesheet left out of the theme check
ThemeChanged_NoCss(old, th) ==
  \/ DepChanged(old, "templates", base_template_source, th[base_template_source])
  \/ \E i \in DOMAIN CORE_DEPENDENCIES :
       DepChanged(old, "templates", CORE_DEPENDENCIES[i], th[CORE_DEPENDENCIES[i]])

ThemeChanged(old, th) ==
  \/ DepChanged(old, "static_files", css_source, th[css_source])
  \/ DepChanged(old, "templates", base_template_source, th[base_template_source])
  \/ \E i \in DOMAIN CORE_DEPENDENCIES :
       DepChanged(old, "templates", CORE_DEPENDENCIES[i], th[CORE_DEPENDENCIES[i]])

\* mutant: the digests of the core dependencies are not stored
ThemeHashes_NoCore(th, names) ==
  [t \in {x \in names : Exists(th[x]) /\ x \notin Range(CORE_DEPENDENCIES)}
     |-> get_full_content_hash(th[t])]

\* the digests the run stores for the dependencies that exist
ThemeHashes(th, names) ==
  [t \in {x \in names : Exists(th[x])} |-> get_full_content_hash(th[t])]

\* glob.glob(os.path.join(config.MARKDOWN_DIR, '*.md'))
Glob(dir) == SelectSeq(MdFiles, LAMBDA p : Exists(dir[p]))

StartBuild ==
  /\ pc = "idle"
  /\ ~LoadRaises(manifestFile)
  /\ pc' = "docs"
  /\ site' = makedirs(makedirs(site, <<BUILD_DIR, <<POSTS_DIR_NAME, "">> >>),
                      <<BUILD_DIR, <<TAGS_DIR_NAME, "">> >>)
  /\ old_manifest' = load_manifest(manifestFile)
  /\ new_manifest' =
       [posts        |-> NewPosts(load_manifest(manifestFile)),
        static_files |-> ThemeHashes(theme, {css_source}),
        templates    |-> ThemeHashes(theme, {base_template_source}
                                              \cup Range(CORE_DEPENDENCIES))]
  /\ theme_changed' = ThemeChanged(load_manifest(manifestFile), theme)
  /\ posts_data_changed' = FALSE
  /\ posts_to_build' = <<>>
  /\ parsed_posts' = <<>>
  /\ queue' = <<>>
  /\ todo' = Glob(md)
  /\ obs' = [NoObs EXCEPT !.cleanStart = clean, !.prevDay = manifestFile.day,
                         !.loaded = manifestFile.state, !.prevRun = prevRun]
  /\ UNCHANGED <<prevRun, md, theme, manifestFile, today, edits, faults, clean>>

\* load_manifest raises: the run ends after the os.makedirs calls
LoadCrash ==
  /\ pc = "idle"
  /\ LoadRaises(manifestFile)
  /\ pc' = "aborted"
  /\ site' = makedirs(makedirs(site, <<BUILD_DIR, <<POSTS_DIR_NAME, "">> >>),
                      <<BUILD_DIR, <<TAGS_DIR_NAME, "">> >>)
  /\ obs' = [NoObs EXCEPT !.cleanStart = clean, !.prevDay = manifestFile.day,
                         !.loaded = manifestFile.state, !.prevRun = prevRun,
                         !.raised = "UnicodeDecodeError"]
  /\ UNCHANGED <<prevRun, md, theme, manifestFile, today, edits, faults, clean, locals>>

(***************************************************************************)
(* build_site [3/5]: the document loop                                     *)
(***************************************************************************)
\* mutant: the old hash read under a key the entries do not have
needs_full_build_WrongKey(current_hash, old_item) ==
  IF "content_hash" \notin DOMAIN old_item THEN TRUE
  ELSE IF current_hash # old_item.content_hash THEN TRUE
  ELSE "link" \notin DOMAIN old_item

\* mutant: the hashes compared, the link not looked at
needs_full_build_NoLinkCheck(current_hash, old_item) ==
  IF "hash" \notin DOMAIN old_item THEN TRUE
  ELSE current_hash # old_item.hash

\* mutant: the link looked at, the hashes not compared
needs_full_build_NoHashCheck(current_hash, old_item) ==
  "link" \notin DOMAIN old_item

\* (current_hash != old_item.get('hash')) or ('link' not in old_item)
needs_full_build(current_hash, old_item) ==
  IF "hash" \notin DOMAIN old_item THEN TRUE
  ELSE IF current_hash # old_item.hash THEN TRUE
  ELSE "link" \notin DOMAIN old_item

\* sorted(names), on the tags of the model
TagRank(t) == IF t = "x" THEN 1 ELSE 2
RECURSIVE SortedTags(_)
SortedTags(ts) ==
  IF ts = <<>> THEN <<>>
  ELSE LET m == CHOOSE i \in DOMAIN ts : \A j \in DOMAIN ts : TagRank(ts[i]) <= TagRank(ts[j])
       IN  <<ts[m]>> \o SortedTags(SubSeq(ts, 1, m - 1) \o SubSeq(ts, m + 1, Len(ts)))

\* post.get('status', 'published')
StatusOf(meta) == IF meta.status = "" THEN "published" ELSE meta.status

\* str(metadata['slug']).lower(), the slug taken from the file name when the
\* metadata has none
SlugOf(p, meta) == IF "slug" \in meta.keys THEN meta.slug ELSE FileStem(p)

\* mutant: the link left out of the manifest entry
new_manifest_data_NoLink(current_hash, meta, post_link) ==
  [hash      |-> current_hash,
   title     |-> meta.title,
   date_str  |-> meta.date,
   tags_list |-> SortedTags(meta.tags),
   hidden    |-> meta.hidden,
   status    |-> StatusOf(meta)]

new_manifest_data(current_hash, meta, post_link) ==
  [hash      |-> current_hash,
   title     |-> meta.title,
   date_str  |-> meta.date,
   link      |-> post_link,
   tags_list |-> SortedTags(meta.tags),
   hidden    |-> meta.hidden,
   status    |-> StatusOf(meta)]

\* the comparison loop: str(new_value) != str(old_item.get(key)), every key
\* but 'hash'; a key the old entry lacks compares as 'None'
metadata_changed(new_data, old_item) ==
  \E key \in DOMAIN new_data \ {"hash"} :
    key \notin DOMAIN old_item \/ new_data[key] # old_item[key]

\* mutant: a metadata change alone does not set the flag
PostsDataChanged_Never(before, full, changed) == before

\* posts_data_changed after one regular post
PostsDataChanged(before, full, changed) ==
  before \/ (changed /\ ~full) \/ ((full \/ changed) /\ ~full)

\* the slug-rename cleanup applies
RenameCleanupApplies(old_item, post_link) ==
  /\ "link" \in DOMAIN old_item
  /\ old_item.link # NoLink
  /\ old_item.link # post_link
  /\ old_item.link # LINK_HIDDEN
  /\ old_item.link # LINK_404

\* mutant: an exception of shutil.rmtree / os.remove is not caught
CleanupRaises_Uncaught(ok) == ~ok

\* whether a failed deletion ends the run: both cleanups sit in
\* try / except Exception, which prints a warning
CleanupRaises(ok) == FALSE

\* remove a directory recursively, or a file, when it exists
cleanup(fs, path) ==
  IF isdir(fs, path) THEN rmtree(fs, path)
  ELSE IF exists(fs, path) THEN remove(fs, path)
  ELSE fs

\* generator.generate_page_html: the page written, or (an exception caught
\* after os.makedirs) only the directory made
generate_page_html(fs, page_id, node, ok) ==
  LET dir == PageOutputDir(page_id)
  IN  IF ok THEN write(makedirs(fs, dir), Append(dir, INDEX_HTML), node)
      ELSE makedirs(fs, dir)

\* the values of the loop body's locals for md_file p
CurHash(p) == get_full_content_hash(md[p])
OldItem(p) == Get(Get(old_manifest, "posts", EmptyDict), p, EmptyDict)
Meta(p) == get_metadata_and_content(p, md[p], today)
Full(p) == needs_full_build(CurHash(p), OldItem(p))
\* mutant: needs_rebuild_html taken from needs_full_build alone
Html_FullOnly(p) == Full(p)
\* mutant: needs_rebuild_html taken from theme_changed alone
Html_ThemeOnly(p) == theme_changed
Html(p) == IF Full(p) THEN TRUE ELSE theme_changed
LinkOf(p) == PostLink(SlugOf(p, Meta(p)))

\* mutant: the check for 'date' and 'title' left out
DocKind_NoRequiredCheck(p) ==
  CASE SlugOf(p, Meta(p)) = "404" \/ p = "404.md" -> "404"
    [] Meta(p).hidden /\ (SlugOf(p, Meta(p)) = "about" \/ p = ABOUT_PAGE) -> "about"
    [] Meta(p).hidden -> "hidden"
    [] OTHER -> "post"

\* which branch of the loop body takes the document
DocKind(p) ==
  CASE SlugOf(p, Meta(p)) = "404" \/ p = "404.md" -> "404"
    [] Meta(p).hidden /\ (SlugOf(p, Meta(p)) = "about" \/ p = ABOUT_PAGE) -> "about"
    [] Meta(p).hidden -> "hidden"
    [] ~({"date", "title"} \subseteq Meta(p).keys) -> "skipped"
    [] OTHER -> "post"

Classified(o, p) == [o EXCEPT !.needs_full_build = Put(@, p, Full(p))]
Rendered(o, p, file, ok) ==
  [o EXCEPT !.rendered = Append(@, p),
            !.written = IF ok THEN @ \cup {<<p, file>>} ELSE @]

\* a render that fails is an I/O fault of the environment
RenderOutcome(invoked, ok) ==
  /\ ~ok => (invoked /\ faults < MaxFaults)
  /\ faults' = IF ok THEN faults ELSE faults + 1

\* special_post['title'] of a 404 page whose file could not be read: KeyError
Crash404 ==
  /\ pc = "docs" /\ todo # <<>>
  /\ LET p == Head(todo)
     IN  /\ DocKind(p) = "404"
         /\ Html(p)
         /\ "title" \notin Meta(p).keys
         /\ obs' = [Classified(obs, p) EXCEPT !.raised = "KeyError"]
  /\ pc' = "aborted"
  /\ UNCHANGED <<prevRun, disk, edits, faults, clean, locals>>

\* the 404 page and the about page: generate_page_html when needs_rebuild_html,
\* a manifest entry with the sentinel link
ProcessSpecial ==
  /\ pc = "docs" /\ todo # <<>>
  /\ LET p == Head(todo)
         is404 == DocKind(p) = "404"
         page_id == IF is404 THEN "404" ELSE "about"
         file == Append(PageOutputDir(page_id), INDEX_HTML)
     IN  /\ DocKind(p) \in {"404", "about"}
         /\ ~(is404 /\ Html(p) /\ "title" \notin Meta(p).keys)
         /\ \E ok \in BOOLEAN :
              /\ RenderOutcome(Html(p), ok)
              /\ site' = IF Html(p)
                         THEN generate_page_html(site, page_id,
                                                 PageNode(CurHash(p), NoLink, NoLink), ok)
                         ELSE site
              /\ obs' = IF Html(p) THEN Rendered(Classified(obs, p), p, file, ok)
                        ELSE Classified(obs, p)
         /\ new_manifest' = [new_manifest EXCEPT !.posts =
              Put(@, p, [hash |-> CurHash(p),
                         link |-> IF is404 THEN LINK_404 ELSE LINK_HIDDEN])]
  /\ todo' = Tail(todo)
  /\ UNCHANGED <<prevRun, md, theme, manifestFile, today, edits, clean, pc, old_manifest,
                 theme_changed, posts_data_changed, posts_to_build, parsed_posts, queue>>

\* a hidden page that is not the about page: only a manifest entry
ProcessHidden ==
  /\ pc = "docs" /\ todo # <<>>
  /\ LET p == Head(todo)
     IN  /\ DocKind(p) = "hidden"
         /\ new_manifest' = [new_manifest EXCEPT !.posts =
              Put(@, p, [hash |-> CurHash(p), link |-> LINK_HIDDEN])]
         /\ obs' = Classified(obs, p)
  /\ todo' = Tail(todo)
  /\ UNCHANGED <<prevRun, disk, edits, faults, clean, pc, old_manifest, theme_changed,
                 posts_data_changed, posts_to_build, parsed_posts, queue>>

\* a document without date or title: continue
ProcessSkipped ==
  /\ pc = "docs" /\ todo # <<>>
  /\ LET p == Head(todo)
     IN  /\ DocKind(p) = "skipped"
         /\ obs' = Classified(obs, p)
  /\ todo' = Tail(todo)
  /\ UNCHANGED <<prevRun, disk, edits, faults, clean, pc, old_manifest, new_manifest,
                 theme_changed, posts_data_changed, posts_to_build, parsed_posts, queue>>

\* a regular post
ProcessPost ==
  /\ pc = "docs" /\ todo # <<>>
  /\ LET p == Head(todo)
         post_link == LinkOf(p)
         data == new_manifest_data(CurHash(p), Meta(p), post_link)
         changed == metadata_changed(data, OldItem(p))
         applies == RenameCleanupApplies(OldItem(p), post_link)
         old_html_dir == CleanupPath(OldItem(p).link)
         present == IF applies THEN exists(site, old_html_dir) ELSE FALSE
     IN  /\ DocKind(p) = "post"
         /\ posts_data_changed' = PostsDataChanged(posts_data_changed, Full(p), changed)
         /\ parsed_posts' = Append(parsed_posts, p)
         /\ new_manifest' = [new_manifest EXCEPT !.posts = Put(@, p, data)]
         /\ posts_to_build' = IF Html(p) THEN Append(posts_to_build, p) ELSE posts_to_build
         /\ \E ok \in BOOLEAN :
              /\ ~ok => (present /\ faults < MaxFaults)
              /\ faults' = IF ok THEN faults ELSE faults + 1
              /\ site' = IF applies /\ ok THEN cleanup(site, old_html_dir) ELSE site
              /\ pc' = IF CleanupRaises(ok) THEN "aborted" ELSE pc
              /\ obs' = [Classified(obs, p) EXCEPT
                           !.metadata_changed = Put(@, p, changed),
                           !.attempted = IF applies THEN @ \cup {<<p, old_html_dir>>} ELSE @,
                           !.removed = IF present /\ ok THEN @ \cup {<<p, old_html_dir>>} ELSE @,
                           !.deleteFailed = IF ok THEN @ ELSE @ \cup {<<p, old_html_dir>>},
                           !.raised = IF CleanupRaises(ok) THEN "OSError" ELSE @]
  /\ todo' = Tail(todo)
  /\ UNCHANGED <<prevRun, md, theme, manifestFile, today, edits, clean,
                 old_manifest, theme_changed, queue>>

(***************************************************************************)
(* build_site: deleted sources, sorting, navigation                        *)
(***************************************************************************)
source_md_paths == {p \in Paths : Exists(md[p])}
deleted_paths == DOMAIN Get(old_manifest, "posts", EmptyDict) \ source_md_paths

\* mutant: the sentinel links are not excluded
OrphanCleanupApplies_NoSentinelCheck(item) ==
  "link" \in DOMAIN item /\ item.link # NoLink

\* the output cleanup applies to a deleted entry
OrphanCleanupApplies(item) ==
  /\ "link" \in DOMAIN item
  /\ item.link # NoLink
  /\ item.link # LINK_HIDDEN
  /\ item.link # LINK_404

\* mutant: only a deleted entry whose output is cleaned up sets the flag
OrphanFlag_LinkedOnly(flag, old, deleted) ==
  flag \/ \E d \in deleted : OrphanCleanupApplies(old[d])

\* posts_data_changed after the loop over deleted_paths: set for every
\* deleted path, whatever its link
OrphanFlag(flag, old, deleted) ==
  flag \/ deleted # {}

\* the cleanups of the reconciler: <<deleted path, output path>>
OrphanCleanups ==
  {<<d, CleanupPath(old_manifest.posts[d].link)>> :
     d \in {x \in deleted_paths : OrphanCleanupApplies(old_manifest.posts[x])}}

\* mutant: the loop over deleted_paths moved behind the loop that writes the
\* post pages
OrphanLoopFirst_AfterPages == FALSE

\* the loop over deleted_paths stands between the document loop and the loop
\* over posts_to_build_all
OrphanLoopFirst == TRUE

\* the cleanups run before, and after, the post pages are written
EarlyCleanups == IF OrphanLoopFirst THEN OrphanCleanups ELSE {}
LateCleanups == IF OrphanLoopFirst THEN {} ELSE OrphanCleanups
OrphanDirs == {c[2] : c \in EarlyCleanups}

RECURSIVE CleanupAll(_, _)
CleanupAll(fs, dirs) ==
  IF dirs = {} THEN fs
  ELSE LET d == CHOOSE x \in dirs : TRUE
       IN  CleanupAll(cleanup(fs, d), dirs \ {d})

\* sorted(parsed_posts, key=lambda p: p['date'], reverse=True): stable
RECURSIVE SortByDateDesc(_)
SortByDateDesc(ps) ==
  IF ps = <<>> THEN <<>>
  ELSE LET n == Len(ps)
           front == SortByDateDesc(SubSeq(ps, 1, n - 1))
           k == Cardinality({i \in DOMAIN front : Meta(front[i]).date >= Meta(ps[n]).date})
       IN  SubSeq(front, 1, k) \o <<ps[n]>> \o SubSeq(front, k + 1, Len(front))

final_parsed_posts == SortByDateDesc(parsed_posts)

is_post_hidden(p) == StatusOf(Meta(p)) = "draft" \/ Meta(p).hidden

visible_posts_for_nav == SelectSeq(final_parsed_posts, LAMBDA p : ~is_post_hidden(p))

\* next(p for p in final_parsed_posts if p['link'] == post['link'])
OriginalPost(link) ==
  LET f == final_parsed_posts
  IN  f[CHOOSE i \in DOMAIN f : /\ LinkOf(f[i]) = link
                                 /\ \A j \in 1..(i - 1) : LinkOf(f[j]) # link]

\* prev_post_nav / next_post_nav of post q after the navigation loop
NavOf(q) ==
  LET v == visible_posts_for_nav
      hits == {i \in DOMAIN v : OriginalPost(LinkOf(v[i])) = q}
  IN  IF hits = {} THEN [prev |-> NoLink, next |-> NoLink]
      ELSE LET i == CHOOSE x \in hits : \A y \in hits : y <= x
           IN  [prev |-> IF i > 1 THEN LinkOf(v[i - 1]) ELSE NoLink,
                next |-> IF i < Len(v) THEN LinkOf(v[i + 1]) ELSE NoLink]

\* the loop over deleted_paths, then posts_to_build_all
Reconcile ==
  /\ pc = "docs" /\ todo = <<>>
  /\ posts_data_changed' =
       OrphanFlag(posts_data_changed, Get(old_manifest, "posts", EmptyDict), deleted_paths)
  /\ queue' = IF theme_changed THEN final_parsed_posts ELSE posts_to_build
  /\ \E bad \in SUBSET {d \in OrphanDirs : exists(site, d)} :
       /\ faults + Cardinality(bad) <= MaxFaults
       /\ faults' = faults + Cardinality(bad)
       /\ site' = CleanupAll(site, OrphanDirs \ bad)
       /\ pc' = IF CleanupRaises(bad = {}) THEN "aborted" ELSE "posts"
       /\ obs' = [obs EXCEPT
                    !.attempted = @ \cup EarlyCleanups,
                    !.removed = @ \cup {c \in EarlyCleanups :
                                          exists(site, c[2]) /\ c[2] \notin bad},
                    !.deleteFailed = @ \cup {c \in EarlyCleanups : c[2] \in bad},
                    !.raised = IF CleanupRaises(bad = {}) THEN "OSError" ELSE @]
  /\ UNCHANGED <<prevRun, md, theme, manifestFile, today, edits, clean, todo,
                 old_manifest, new_manifest, theme_changed, posts_to_build, parsed_posts>>

(***************************************************************************)
(* build_site [5/5]: pages, aggregate pages, manifest                      *)
(***************************************************************************)
\* generator.generate_post_page: the page written, or (an exception caught
\* after os.makedirs) only the directory made
generate_post_page(fs, link, node, ok) ==
  LET output_dir == PostOutputDir(link)
  IN  IF ok THEN write(makedirs(fs, output_dir), Append(output_dir, INDEX_HTML), node)
      ELSE makedirs(fs, output_dir)

\* mutant: a failed render ends the loop over posts_to_build_all
AfterRender_StopOnFailure(q, ok) == IF ok THEN Tail(q) ELSE <<>>

\* the posts left to generate after one call: generate_post_page catches
\* its exceptions, so the loop goes on to the next post
AfterRender(q, ok) == Tail(q)

GeneratePost ==
  /\ pc = "posts" /\ queue # <<>>
  /\ LET p == Head(queue)
         file == Append(PostOutputDir(LinkOf(p)), INDEX_HTML)
     IN  \E ok \in BOOLEAN :
           /\ RenderOutcome(TRUE, ok)
           /\ site' = generate_post_page(site, LinkOf(p),
                        PageNode(CurHash(p), NavOf(p).prev, NavOf(p).next), ok)
           /\ obs' = Rendered(obs, p, file, ok)
           /\ queue' = AfterRender(queue, ok)
  /\ UNCHANGED <<prevRun, md, theme, manifestFile, today, edits, clean, pc, todo, old_manifest,
                 new_manifest, theme_changed, posts_data_changed, posts_to_build,
                 parsed_posts>>

\* config.MAX_POSTS_ON_INDEX, and the visible_posts[:10] of generate_rss
MAX_POSTS_ON_INDEX == 5
RSS_ITEMS == 10

Take(seq, n) == SubSeq(seq, 1, IF Len(seq) < n THEN Len(seq) ELSE n)
Links(ps) == [i \in DOMAIN ps |-> LinkOf(ps[i])]

\* tag_map: every parsed post is appended under each of its tags
AllTags == <<"x", "y">>
tag_map_keys == {t \in Range(AllTags) : \E p \in Range(parsed_posts) : t \in Range(Meta(p).tags)}
\* sorted(tag_map[tag], key=lambda p: p['date'], reverse=True)
sorted_tag(t) == SelectSeq(final_parsed_posts, LAMBDA p : t \in Range(Meta(p).tags))
TagLink(t) == << <<TAGS_DIR_NAME, "">>, <<tag_to_slug(t), "">> >>
TagLinks(ts) == LET k == SelectSeq(AllTags, LAMBDA t : t \in ts)
                IN  [i \in DOMAIN k |-> TagLink(k[i])]

\* the files of the aggregate renderers
HomeFile == <<BUILD_DIR, INDEX_HTML>>
ArchiveDir == <<BUILD_DIR, <<"archive", "">> >>
TagsDir == <<BUILD_DIR, <<TAGS_DIR_NAME, "">> >>
RobotsFile == <<BUILD_DIR, <<"robots", ".txt">> >>
SitemapFile == <<BUILD_DIR, <<"sitemap", ".xml">> >>
RssFile == <<BUILD_DIR, <<"rss", ".xml">> >>
TagFile(t) == Append(TagOutputDir(t), INDEX_HTML)

\* what generate_index_html, generate_archive_html, generate_tags_list_html,
\* generate_tag_page (per tag), generate_robots_txt, generate_sitemap and
\* generate_rss write over the current document set
AggregatePages ==
  LET visible == visible_posts_for_nav
      fixed == (HomeFile :> ListNode(Links(Take(visible, MAX_POSTS_ON_INDEX))))
            @@ (Append(ArchiveDir, INDEX_HTML) :> ListNode(Links(visible)))
            @@ (Append(TagsDir, INDEX_HTML) :> ListNode(TagLinks(tag_map_keys)))
            @@ (RobotsFile :> ListNode(<<>>))
            @@ (SitemapFile :> ListNode(Links(visible) \o
                  TagLinks({t \in Range(AllTags) :
                              \E p \in Range(visible) : t \in Range(Meta(p).tags)})))
            @@ (RssFile :> ListNode(Links(Take(visible, RSS_ITEMS))))
  IN  fixed @@ [f \in {TagFile(t) : t \in tag_map_keys} |->
                  ListNode(Links(sorted_tag(CHOOSE t \in tag_map_keys : TagFile(t) = f)))]

RECURSIVE MakeAllDirs(_, _)
MakeAllDirs(fs, dirs) ==
  IF dirs = {} THEN fs
  ELSE LET d == CHOOSE x \in dirs : TRUE
       IN  MakeAllDirs(makedirs(fs, d), dirs \ {d})

\* if not old_manifest or posts_data_changed or theme_changed
AggregateCondition == DOMAIN old_manifest = {} \/ posts_data_changed \/ theme_changed

\* the keys of tag_map in the order of tag_map.items(): the order in which
\* the document loop first met each tag
RECURSIVE FirstOccurrences(_)
FirstOccurrences(ts) ==
  IF ts = <<>> THEN <<>>
  ELSE LET front == FirstOccurrences(SubSeq(ts, 1, Len(ts) - 1))
           last == ts[Len(ts)]
       IN  IF last \in Range(front) THEN front ELSE Append(front, last)
RECURSIVE TagsInLoopOrder(_)
TagsInLoopOrder(ps) ==
  IF ps = <<>> THEN <<>> ELSE Meta(Head(ps)).tags \o TagsInLoopOrder(Tail(ps))
tag_map_items == FirstOccurrences(TagsInLoopOrder(parsed_posts))

\* the calls of the aggregate branch, in the order of the code, each with the
\* documents (or tags) it is passed
AggregateCalls ==
  << <<"generate_index_html", final_parsed_posts>>,
     <<"generate_archive_html", final_parsed_posts>>,
     <<"generate_tags_list_html", tag_map_items>> >>
  \o [i \in DOMAIN tag_map_items |->
        <<"generate_tag_page", sorted_tag(tag_map_items[i]), tag_map_items[i]>>]
  \o << <<"generate_robots_txt", <<>> >>,
        <<"generate_sitemap", final_parsed_posts>>,
        <<"generate_rss", final_parsed_posts>> >>

\* The renderers of generator.py catch their own exceptions.  sitemap.xml and
\* rss.xml are opened by build_site itself, outside any try: an open() that
\* raises ends the run before the renderer in its argument is called.
AggregateOpens == {SitemapFile, RssFile}
CallsBefore(failed) ==
  IF failed = SitemapFile THEN SubSeq(AggregateCalls, 1, Len(AggregateCalls) - 2)
  ELSE IF failed = RssFile THEN SubSeq(AggregateCalls, 1, Len(AggregateCalls) - 1)
  ELSE AggregateCalls
PagesBefore(failed) ==
  LET skipped == IF failed = SitemapFile THEN {SitemapFile, RssFile}
                 ELSE IF failed = RssFile THEN {RssFile} ELSE {}
  IN  [f \in DOMAIN AggregatePages \ skipped |-> AggregatePages[f]]

GenerateAggregates ==
  /\ pc = "posts" /\ queue = <<>>
  /\ \E failed \in {NoLink} \cup AggregateOpens :
       /\ failed # NoLink => (AggregateCondition /\ faults < MaxFaults)
       /\ faults' = IF failed = NoLink THEN faults ELSE faults + 1
       /\ pc' = IF failed = NoLink THEN "save" ELSE "aborted"
       /\ site' = LET cleaned == CleanupAll(site, {c[2] : c \in LateCleanups})
                  IN  IF AggregateCondition
                      THEN PagesBefore(failed) @@
                           MakeAllDirs(cleaned, {ArchiveDir, TagsDir} \cup
                                                {TagOutputDir(t) : t \in tag_map_keys})
                      ELSE cleaned
       /\ obs' = [obs EXCEPT !.aggregates = AggregateCondition,
                             !.attempted = @ \cup LateCleanups,
                             !.removed = @ \cup {c \in LateCleanups : exists(site, c[2])},
                             !.aggCalls = IF AggregateCondition THEN CallsBefore(failed)
                                          ELSE <<>>,
                             !.raised = IF failed = NoLink THEN @ ELSE "IOError"]
  /\ UNCHANGED <<prevRun, md, theme, manifestFile, today, edits, clean, locals>>

\* save_manifest: the file replaced; or IOError, caught: the file as it was
\* when open() failed, cut short when the write failed
SaveManifest ==
  /\ pc = "save"
  /\ pc' = "done"
  /\ \/ /\ manifestFile' = [state |-> "ok", data |-> new_manifest, day |-> today]
        /\ obs' = [obs EXCEPT !.saved = TRUE]
        /\ clean' = TRUE
        /\ UNCHANGED faults
     \/ /\ faults < MaxFaults
        /\ faults' = faults + 1
        /\ \/ UNCHANGED <<manifestFile, clean>>
           \/ /\ \E st \in CutShort :
                   manifestFile' = [state |-> st, data |-> EmptyDict, day |-> today]
              /\ clean' = FALSE
        /\ UNCHANGED obs
  /\ UNCHANGED <<prevRun, md, theme, site, today, edits, locals>>

\* the process is killed in the middle of a run
Kill ==
  /\ pc \in {"docs", "posts", "save"}
  /\ faults < MaxFaults
  /\ faults' = faults + 1
  /\ pc' = "aborted"
  /\ obs' = [obs EXCEPT !.raised = "killed"]
  /\ UNCHANGED <<prevRun, disk, edits, clean, locals>>

\* the process is killed inside save_manifest, after open(MANIFEST_FILE, 'w')
\* emptied the file and before json.dump wrote all of it
KillDuringSave ==
  /\ pc = "save"
  /\ faults < MaxFaults
  /\ faults' = faults + 1
  /\ pc' = "aborted"
  /\ \E st \in CutShort :
       manifestFile' = [state |-> st, data |-> EmptyDict, day |-> today]
  /\ clean' = FALSE
  /\ obs' = [obs EXCEPT !.raised = "killed in save"]
  /\ UNCHANGED <<prevRun, md, theme, site, today, edits, locals>>

\* how the run that is ending went: "saved", "savefailed" (IOError caught in
\* save_manifest), "cutshort" (killed inside save_manifest), "killed" (killed
\* before save_manifest) or "crashed" (ended by an uncaught exception)
RunOutcome ==
  IF pc = "done" THEN (IF obs.saved THEN "saved" ELSE "savefailed")
  ELSE IF obs.raised = "killed in save" THEN "cutshort"
  ELSE IF obs.raised = "killed" THEN "killed"
  ELSE "crashed"

\* two documents of the source set have the same slug
SlugsShared ==
  \E p, q \in Paths :
    /\ p # q /\ Readable(md[p]) /\ Readable(md[q])
    /\ SlugOf(p, Meta(p)) = SlugOf(q, Meta(q))

\* the process ends; its locals are gone
Exit ==
  /\ pc \in {"done", "aborted"}
  /\ pc' = "idle"
  /\ todo' = <<>>
  /\ old_manifest' = EmptyDict
  /\ new_manifest' = NewManifest
  /\ theme_changed' = FALSE
  /\ posts_data_changed' = FALSE
  /\ posts_to_build' = <<>>
  /\ parsed_posts' = <<>>
  /\ queue' = <<>>
  /\ obs' = NoObs
  /\ prevRun' = [outcome |-> RunOutcome,
                 undeleted |-> {c \in obs.deleteFailed : ~Exists(md[c[1]])},
                 shared |-> IF prevRun.shared THEN TRUE ELSE SlugsShared]
  /\ UNCHANGED <<disk, edits, faults, clean>>

Next ==
  \/ \E p \in Paths, v \in -1..Len(Contents) : EditDoc(p, v)
  \/ \E t \in ThemeFiles, v \in -1..2 : EditTheme(t, v)
  \/ TickDay
  \/ StartBuild
  \/ LoadCrash
  \/ Crash404
  \/ ProcessSpecial
  \/ ProcessHidden
  \/ ProcessSkipped
  \/ ProcessPost
  \/ Reconcile
  \/ GeneratePost
  \/ GenerateAggregates
  \/ SaveManifest
  \/ Kill
  \/ KillDuringSave
  \/ Exit

Spec == Init /\ [][Next]_vars

(***************************************************************************)
(* Properties.  They are stated over the disk, the manifest the run loaded *)
(* and what the run did (obs), not over the run's own decisions.           *)
(***************************************************************************)
OldPosts == Get(old_manifest, "posts", EmptyDict)
Sentinels == {LINK_HIDDEN, LINK_404}
RenderedDocs == Range(obs.rendered)
\* the documents a page is rendered for
HasPage(p) == Exists(md[p]) /\ DocKind(p) \in {"post", "404", "about"}
IsPost(p) == Exists(md[p]) /\ DocKind(p) = "post"

\* the digest the manifest holds for a theme dependency, -1 when it holds none
StoredThemeHash(m, t) ==
  Get(Get(m, IF t = css_source THEN "static_files" ELSE "templates", EmptyDict), t, -1)

\* some theme dependency on disk differs from what the loaded manifest recorded
ThemeDependencyChanged ==
  \E t \in ThemeFiles :
    Exists(theme[t]) /\ StoredThemeHash(old_manifest, t) # get_full_content_hash(theme[t])

\* the document's bytes are those the loaded manifest recorded, with a link
UnchangedSinceManifest(p) ==
  /\ Exists(md[p])
  /\ p \in DOMAIN OldPosts
  /\ {"hash", "link"} \subseteq DOMAIN OldPosts[p]
  /\ OldPosts[p].hash = get_full_content_hash(md[p])

\* C1: in a run from a saved manifest, a document whose content hash equals the
\* hash of its old entry (which has a link) is passed to no page renderer and no
\* page is written for it, when no theme dependency changed.
C1_UnchangedNotRegenerated ==
  \A p \in Paths :
    (UnchangedSinceManifest(p) /\ ~ThemeDependencyChanged)
      => /\ p \notin RenderedDocs
         /\ \A w \in obs.written : w[1] # p

\* C1 witness: a finished run that rendered a changed post and left an
\* unchanged post alone.
C1_Witness ==
  /\ pc = "done"
  /\ ~ThemeDependencyChanged
  /\ \E p, q \in Paths :
       /\ IsPost(p) /\ UnchangedSinceManifest(p) /\ p \notin RenderedDocs
       /\ IsPost(q) /\ q \in RenderedDocs

\* C2: needs_full_build of a document is true exactly when its hash differs
\* from the old entry's, or it has no old entry, or the old entry has no link.
C2_NeedsFullRegen ==
  \A p \in DOMAIN obs.needs_full_build :
    obs.needs_full_build[p] <=>
      \/ p \notin DOMAIN OldPosts
      \/ Get(OldPosts[p], "hash", -1) # get_full_content_hash(md[p])
      \/ "link" \notin DOMAIN OldPosts[p]

\* C2 witness: an old entry with the document's hash and no link was
\* classified as needing a full build.
C2_Witness ==
  \E p \in DOMAIN obs.needs_full_build :
    /\ p \in DOMAIN OldPosts
    /\ Get(OldPosts[p], "hash", -1) = get_full_content_hash(md[p])
    /\ "link" \notin DOMAIN OldPosts[p]
    /\ obs.needs_full_build[p]

\* C3: when a theme dependency changed, the run passes every surviving
\* document that has a page (posts, the 404 page, the about page) to the page
\* renderer, also those whose hash is unchanged.
C3_ThemeChangeRebuildsAll ==
  (pc \in {"save", "done"} /\ ThemeDependencyChanged)
    => \A p \in Paths : HasPage(p) => p \in RenderedDocs

\* C3 witness: a finished run from a saved manifest, a changed theme
\* dependency, and an unchanged post and an unchanged 404 page rendered.
C3_Witness ==
  /\ pc = "done"
  /\ ThemeDependencyChanged
  /\ \E p, q \in Paths :
       /\ IsPost(p) /\ UnchangedSinceManifest(p) /\ p \in RenderedDocs
       /\ DocKind(q) = "404" /\ UnchangedSinceManifest(q) /\ q \in RenderedDocs

\* a regular post whose front matter has no date: its date is date.today()
Undated(p) == IsPost(p) /\ Readable(md[p]) /\ Contents[md[p]].date = 0

\* the run regenerated nothing and its manifest equals the one it loaded
NothingRegenerated ==
  /\ obs.rendered = <<>>
  /\ ~obs.aggregates
  /\ new_manifest = old_manifest

Added(p) == IsPost(p) /\ OldPosts # EmptyDict /\ p \notin DOMAIN OldPosts

\* the entries of the loaded manifest whose source document is gone
Orphans == {d \in DOMAIN OldPosts : ~Exists(md[d])}

\* C5: the aggregate pages are regenerated in every run in which a document
\* was added to an already built site, a document was removed, or a theme
\* dependency changed.
C5_AggregatesOnAddRemoveTheme ==
  (pc = "done" /\ ((\E p \in Paths : Added(p)) \/ Orphans # {} \/ ThemeDependencyChanged))
    => obs.aggregates

\* the fields the metadata comparison covers
ComparedFields == {"title", "date_str", "link", "tags_list", "hidden", "status"}

\* some compared field of the post's new manifest entry differs from the
\* stored entry (a field the stored entry lacks differs)
MetadataMismatch(p) ==
  /\ IsPost(p)
  /\ p \in DOMAIN OldPosts
  /\ p \in DOMAIN new_manifest.posts
  /\ \E key \in ComparedFields :
       \/ key \notin DOMAIN OldPosts[p]
       \/ key \notin DOMAIN new_manifest.posts[p]
       \/ new_manifest.posts[p][key] # OldPosts[p][key]

\* C6: a mismatch in a compared metadata field of a post forces the aggregate
\* pages to be regenerated, also when the post's content hash changed.
C6_MetadataMismatchForcesAggregates ==
  (pc = "done" /\ \E p \in Paths : MetadataMismatch(p)) => obs.aggregates

\* the index file the page generator writes for a post link
PostFile(link) == Append(PostOutputDir(link), INDEX_HTML)

\* the stored entry has a link that is neither a sentinel nor empty
HasRealLink(item) ==
  "link" \in DOMAIN item /\ item.link \notin Sentinels \cup {NoLink}

\* no existing post is written at this link
LinkUnused(link) == \A q \in Paths : IsPost(q) => LinkOf(q) # link

\* C7: after a run, the output generated for a deleted document that had
\* a non-sentinel link no longer exists on disk.
C7_DeletedOutputRemoved ==
  pc = "done" =>
    \A d \in Orphans :
      (HasRealLink(OldPosts[d]) /\ LinkUnused(OldPosts[d].link))
        => /\ ~exists(site, PostFile(OldPosts[d].link))
           /\ ~exists(site, PostOutputDir(OldPosts[d].link))

\* the post's computed link differs from the non-sentinel link stored for it
SlugRenamed(p) ==
  /\ IsPost(p)
  /\ p \in DOMAIN OldPosts
  /\ HasRealLink(OldPosts[p])
  /\ OldPosts[p].link # LinkOf(p)

\* C9: after a run in which a post's slug was renamed, the old output is gone,
\* the new output exists and the manifest entry records the new link.
C9_SlugRename ==
  pc = "done" =>
    \A p \in Paths :
      (SlugRenamed(p) /\ LinkUnused(OldPosts[p].link) /\ <<p, PostFile(LinkOf(p))>> \in obs.written)
        => /\ ~exists(site, PostOutputDir(OldPosts[p].link))
           /\ exists(site, PostFile(LinkOf(p)))
           /\ new_manifest.posts[p].link = LinkOf(p)

\* C8: in a run that got past reconciliation, every path of the old manifest
\* whose source is gone, whatever its recorded link, has no entry in the
\* manifest the run builds and saves, and the aggregate-rebuild flag is set
\* (the aggregate pages are regenerated).
C8_DeletedEntriesDropped ==
  pc \in {"save", "done"} =>
    \A d \in Orphans :
      /\ d \notin DOMAIN new_manifest.posts
      /\ posts_data_changed
      /\ obs.aggregates
      /\ obs.saved => d \notin DOMAIN manifestFile.data.posts

\* C8 witness: a saved run with an unchanged theme in which one deleted
\* document had a real link and another a sentinel link.
C8_Witness ==
  /\ pc = "done" /\ obs.saved /\ ~ThemeDependencyChanged
  /\ \E d, e \in Orphans :
       /\ HasRealLink(OldPosts[d])
       /\ Get(OldPosts[e], "link", NoLink) \in Sentinels
  /\ obs.aggregates

\* the link a first build records for a document with a page
ExpectedLink(p) ==
  CASE DocKind(p) = "404" -> LINK_404
    [] DocKind(p) = "about" -> LINK_HIDDEN
    [] OTHER -> LinkOf(p)

\* every source document is one a page is rendered for
AllPublishable == \A p \in Paths : Exists(md[p]) => HasPage(p)

\* C10: a run that loaded no manifest passes every document that has a page to
\* its renderer, regenerates the aggregate pages, and builds and saves a
\* manifest with an entry holding the current hash and the computed link for
\* each of them: exactly N entries when the N source documents all have pages.
C10_FirstBuild ==
  (pc = "done" /\ old_manifest = EmptyDict) =>
    /\ \A p \in Paths : HasPage(p) =>
         /\ p \in RenderedDocs
         /\ p \in DOMAIN new_manifest.posts
         /\ Get(new_manifest.posts[p], "hash", -1) = get_full_content_hash(md[p])
         /\ Get(new_manifest.posts[p], "link", NoLink) = ExpectedLink(p)
    /\ obs.aggregates
    /\ AllPublishable => DOMAIN new_manifest.posts = {p \in Paths : Exists(md[p])}
    /\ obs.saved => manifestFile.data = new_manifest

\* C10 witness: a first build over three documents, two of them regular posts,
\* rendered and saved.
C10_Witness ==
  /\ pc = "done" /\ old_manifest = EmptyDict /\ obs.saved
  /\ AllPublishable
  /\ Cardinality({p \in Paths : IsPost(p)}) = 2
  /\ Cardinality(DOMAIN new_manifest.posts) = 3
  /\ Len(obs.rendered) = 3
  /\ obs.aggregates


\* the tag index and the page of every tag in use are on disk as the aggregate
\* renderers write them over the current documents
TagPagesFresh ==
  /\ exists(site, Append(TagsDir, INDEX_HTML))
  /\ site[Append(TagsDir, INDEX_HTML)] = AggregatePages[Append(TagsDir, INDEX_HTML)]
  /\ \A t \in tag_map_keys :
       exists(site, TagFile(t)) /\ site[TagFile(t)] = AggregatePages[TagFile(t)]

\* C11: a post whose content hash is unchanged while the theme is unchanged
\* and a compared metadata field differs from the stored entry is classified
\* needs_full_build = False, metadata_changed = True; the aggregate-rebuild
\* flag is set, its own page is not regenerated, and the tag index and the
\* per-tag pages are regenerated.
C11_MetadataOnlyChange ==
  pc \in {"save", "done"} =>
    \A p \in Paths :
      (UnchangedSinceManifest(p) /\ ~ThemeDependencyChanged /\ MetadataMismatch(p))
        => /\ obs.needs_full_build[p] = FALSE
           /\ obs.metadata_changed[p] = TRUE
           /\ posts_data_changed
           /\ p \notin RenderedDocs
           /\ obs.aggregates
           /\ TagPagesFresh

\* C11 witness: such a post in a finished run, while another post carries tags.
C11_Witness ==
  /\ pc = "done" /\ ~ThemeDependencyChanged
  /\ \E p \in Paths : UnchangedSinceManifest(p) /\ MetadataMismatch(p)
  /\ tag_map_keys # {}
  /\ obs.aggregates


\* C12: a run that finds the manifest file missing or malformed is not ended
\* by the load, works from the empty manifest and, when it completes, has
\* regenerated every document page and the aggregate pages.
C12_MalformedManifestIsFirstBuild ==
  obs.loaded \in {"missing"} \cup CutShort =>
    /\ obs.raised # "UnicodeDecodeError"
    /\ old_manifest = EmptyDict
    /\ pc = "done" => /\ \A p \in Paths : HasPage(p) => p \in RenderedDocs
                      /\ obs.aggregates


\* the manifest file is the one the run found when it started
ManifestAsLoaded ==
  /\ manifestFile.state = obs.loaded
  /\ manifestFile.day = obs.prevDay
  /\ load_manifest(manifestFile) = old_manifest

\* C13: the manifest file is not written before the final save step, and a
\* run that was interrupted (killed, or ended by an uncaught exception) leaves
\* the manifest file exactly as it found it.
C13_InterruptedRunKeepsOldManifest ==
  pc \in {"docs", "posts", "save", "aborted"} => ManifestAsLoaded


\* the file a document's page is written to
PageFileOf(p) ==
  CASE DocKind(p) = "404" -> Append(PageOutputDir("404"), INDEX_HTML)
    [] DocKind(p) = "about" -> Append(PageOutputDir("about"), INDEX_HTML)
    [] OTHER -> PostFile(LinkOf(p))

\* no other document of the source set is written to the same file, and no
\* other entry of the loaded manifest has this document's link
OwnPage(p) ==
  /\ \A q \in Paths : (q # p /\ HasPage(q)) => PageFileOf(q) # PageFileOf(p)
  /\ \A q \in DOMAIN OldPosts \ {p} : Get(OldPosts[q], "link", NoLink) # ExpectedLink(p)

\* the page on disk was rendered from the document's current bytes
PageCurrent(p) ==
  exists(site, PageFileOf(p)) /\ site[PageFileOf(p)].hash = get_full_content_hash(md[p])

\* no render, delete or save has failed so far: the only fault, if any, is
\* that the run before was killed
NoOtherFault == faults = (IF obs.prevRun.outcome = "killed" THEN 1 ELSE 0)

\* C14: when the run before was interrupted before saving the manifest, a
\* completed run leaves the page of every surviving document as a full
\* rebuild of the current sources would render it.
C14_RunAfterInterruptionIsSafe ==
  (pc = "done" /\ obs.prevRun.outcome \in {"killed", "crashed"} /\ NoOtherFault)
    => \A p \in Paths : (HasPage(p) /\ OwnPage(p)) => PageCurrent(p)


\* the run regenerated every document page and the aggregate pages
FullRebuild ==
  /\ \A p \in Paths : HasPage(p) => p \in RenderedDocs
  /\ obs.aggregates

\* C15 as claimed: the run after a run whose save failed with an I/O error is
\* a full rebuild.
C15_FullRebuildAfterFailedSave_Claimed ==
  (pc = "done" /\ obs.prevRun.outcome = "savefailed") => FullRebuild

\* C15 as amended: a run whose save fails with an I/O error still completes;
\* the file is left as it was (open failed) or cut short (the write failed).
\* The next run is a full rebuild when the file was left as text that
\* json.load rejects; it classifies against the old manifest, regenerating
\* every page whose document differs from it, when the file was left as it
\* was; it is ended by load_manifest when the file was left undecodable.
C15_FullRebuildAfterFailedSave ==
  /\ (pc = "done" /\ ~obs.saved)
       => obs.raised = "" /\ (ManifestAsLoaded \/ manifestFile.state \in CutShort)
  /\ obs.prevRun.outcome = "savefailed" =>
       /\ obs.loaded = "undecodable" => obs.raised = "UnicodeDecodeError"
       /\ (pc = "done" /\ obs.loaded = "corrupt") => FullRebuild
       /\ (pc = "done" /\ obs.loaded \in {"ok", "missing"}) =>
            \A p \in Paths : (HasPage(p) /\ ~UnchangedSinceManifest(p)) => p \in RenderedDocs

\* C15 witness: a completed run over two posts after a failed save that left
\* the manifest cut short.
C15_Witness ==
  /\ pc = "done" /\ obs.prevRun.outcome = "savefailed" /\ obs.loaded = "corrupt"
  /\ \E p, q \in Paths : p # q /\ IsPost(p) /\ IsPost(q)
  /\ FullRebuild


\* the page renderer was called for the document and wrote nothing
RenderFailedFor(p) == p \in RenderedDocs /\ \A w \in obs.written : w[1] # p

\* the documents whose page the run has to regenerate
RebuildSet == {p \in Paths : HasPage(p) /\ Html(p)}

\* C16: a page render that fails does not end the run: every other document
\* of the rebuild set is still passed to its renderer and written, the
\* aggregate step runs exactly when it is flagged, and the run goes on to
\* save the manifest.
C16_RenderFailureIsPerPage ==
  (\E p \in Paths : RenderFailedFor(p)) =>
    /\ obs.raised \in {"", "killed", "killed in save", "IOError"}
    /\ pc \in {"save", "done"} =>
         /\ \A q \in RebuildSet : q \in RenderedDocs
         /\ \A q \in RebuildSet : RenderFailedFor(q) \/ <<q, PageFileOf(q)>> \in obs.written
         /\ obs.aggregates = AggregateCondition
    /\ (pc = "done" /\ faults = 1) => obs.saved /\ manifestFile.data = new_manifest

\* C16 witness: a saved run in which the render of one post failed and a post
\* after it in the queue was rendered and written.
C16_Witness ==
  /\ pc = "done" /\ obs.saved /\ obs.aggregates
  /\ \E i, j \in DOMAIN obs.rendered :
       /\ i < j
       /\ IsPost(obs.rendered[i]) /\ RenderFailedFor(obs.rendered[i])
       /\ <<obs.rendered[j], PageFileOf(obs.rendered[j])>> \in obs.written


\* C17: a saved manifest records no new hash for a document whose page had to
\* be regenerated in the run and was not written: its entry, if any, still
\* holds the hash of the loaded manifest.
C17_HashOfLastSuccessfulRender ==
  (pc = "done" /\ obs.saved) =>
    \A p \in Paths :
      (HasPage(p) /\ Html(p) /\ <<p, PageFileOf(p)>> \notin obs.written
        /\ p \in DOMAIN manifestFile.data.posts)
        => Get(manifestFile.data.posts[p], "hash", -1) = Get(OldItem(p), "hash", -1)


\* C18: a deletion that fails in the slug-rename cleanup or in the orphan
\* cleanup does not end the run: every source document is still classified,
\* no deleted path keeps an entry in the new manifest, the aggregate-rebuild
\* flag is set when a document was deleted, and the manifest is saved.
C18_DeleteFailureNotFatal ==
  obs.deleteFailed # {} =>
    /\ obs.raised \in {"", "killed", "killed in save", "IOError"}
    /\ pc \in {"posts", "save", "done"} =>
         /\ DOMAIN obs.needs_full_build = source_md_paths
         /\ Orphans \cap DOMAIN new_manifest.posts = {}
         /\ Orphans # {} => posts_data_changed
    /\ (pc \in {"save", "done"} /\ Orphans # {}) => obs.aggregates
    /\ (pc = "done" /\ faults = 1) => obs.saved /\ manifestFile.data = new_manifest

\* C18 witness: a saved run in which the deletion of an orphan's output
\* failed, leaving the output on disk, while a post remains.
C18_Witness ==
  /\ pc = "done" /\ obs.saved /\ obs.aggregates
  /\ \E c \in obs.deleteFailed : c[1] \in Orphans /\ exists(site, c[2])
  /\ \E p \in Paths : IsPost(p)

\* C19: an orphan's output whose deletion failed in the run before is
\* attempted to be deleted again in this run.
C19_FailedDeleteRetried_Claimed ==
  pc \in {"posts", "save", "done"} =>
    \A c \in obs.prevRun.undeleted :
      ~Exists(md[c[1]]) => \E a \in obs.attempted : a[2] = c[2]

\* C19 (as the code has it): when the deletion of an orphan's output failed
\* in a run, and the document is still absent, the next run attempts that
\* cleanup again only if the loaded manifest still holds the document's
\* entry; after a run that saved its manifest the entry is gone and no
\* cleanup for it is attempted.
C19_FailedDeleteRetried ==
  pc \in {"posts", "save", "done"} =>
    \A c \in obs.prevRun.undeleted :
      ~Exists(md[c[1]]) =>
        /\ c \in obs.attempted => c[1] \in DOMAIN OldPosts
        /\ (obs.prevRun.outcome = "saved" /\ obs.loaded = "ok") =>
             /\ c[1] \notin DOMAIN OldPosts
             /\ c \notin obs.attempted

\* The run after a saved run whose orphan deletion failed has finished: it
\* attempted no cleanup and the orphan's output is still on disk.
C19_Witness ==
  /\ pc = "done" /\ obs.prevRun.outcome = "saved" /\ obs.loaded = "ok"
  /\ obs.attempted = {}
  /\ \E c \in obs.prevRun.undeleted : ~Exists(md[c[1]]) /\ exists(site, c[2])

\* C20: no cleanup is run for, and no path is removed for, a manifest entry
\* whose recorded link is "hidden" or "404.html", whether its document was
\* deleted or its new link differs.
C20_SentinelNeverCleaned ==
  \A c \in obs.attempted \cup obs.removed \cup obs.deleteFailed :
    Get(OldPosts[c[1]], "link", NoLink) \notin Sentinels

\* C20 witness: a run past reconciliation in which the entry of a deleted
\* document with link "404.html" triggered nothing and the 404 page is still
\* on disk, while the entry of a renamed or deleted post had its path removed.
C20_Witness ==
  /\ pc = "done"
  /\ \E d \in Orphans : Get(OldPosts[d], "link", NoLink) = LINK_404
  /\ exists(site, Append(PageOutputDir("404"), INDEX_HTML))
  /\ obs.removed # {}


\* the regular posts of the source set, newest first, as the aggregate
\* renderers are to receive them
CurrentPosts == SortByDateDesc(SelectSeq(MdFiles, IsPost))

\* the invocations of a complete aggregate regeneration over the current
\* documents: every renderer once, every tag in use once
CompleteAggregateCalls(calls) ==
  /\ \A name \in {"generate_index_html", "generate_archive_html", "generate_sitemap",
                   "generate_rss"} :
       Cardinality({i \in DOMAIN calls : calls[i][1] = name}) = 1
       /\ \E i \in DOMAIN calls : calls[i] = <<name, CurrentPosts>>
  /\ \A name \in {"generate_tags_list_html", "generate_robots_txt"} :
       Cardinality({i \in DOMAIN calls : calls[i][1] = name}) = 1
  /\ \A t \in Range(AllTags) :
       Cardinality({i \in DOMAIN calls : calls[i][1] = "generate_tag_page" /\ calls[i][3] = t})
         = IF \E p \in Paths : IsPost(p) /\ t \in Range(Meta(p).tags) THEN 1 ELSE 0
  /\ \A i \in DOMAIN calls :
       calls[i][1] = "generate_tag_page" =>
         calls[i][2] = SelectSeq(CurrentPosts, LAMBDA p : calls[i][3] \in Range(Meta(p).tags))

\* C21: a run invokes either none of the aggregate renderers or each of them
\* exactly once (the per-tag renderer once per tag in use) over all regular
\* posts of the current source set.
C21_AggregatesAllOrNothing ==
  obs.aggCalls = <<>> \/ CompleteAggregateCalls(obs.aggCalls)


\* a file that exists and cannot be opened
Unreadable(f) == Exists(f) /\ ~Readable(f)

\* C22: in every run, a source document that cannot be read is classified as
\* needing a full build and a theme dependency that cannot be read sets
\* theme_changed, also when the file was already unreadable in the run before.
C22_UnreadableIsStale ==
  pc \in {"docs", "posts", "save", "done"} =>
    /\ \A p \in DOMAIN obs.needs_full_build :
         Unreadable(md[p]) => obs.needs_full_build[p]
    /\ \A t \in ThemeFiles : Unreadable(theme[t]) => theme_changed


\* C23: a run over a source set with a document that cannot be read, whatever
\* its file name, is not ended by it: with no I/O fault, the run does not
\* abort, every source document is classified and the manifest is saved.
C23_UnreadableDocNeverAborts ==
  (faults = 0 /\ \E p \in Paths : Unreadable(md[p])) =>
    /\ pc # "aborted"
    /\ obs.raised = ""
    /\ pc \in {"posts", "save", "done"} => DOMAIN obs.needs_full_build = source_md_paths
    /\ pc = "done" => obs.saved


\* a source document that is neither a 404 page nor marked hidden and whose
\* metadata, as the parser returns it, lacks 'date' or 'title'
LacksRequiredFields(p) ==
  /\ Exists(md[p])
  /\ p # "404.md" /\ SlugOf(p, Meta(p)) # "404"
  /\ ~Meta(p).hidden
  /\ ~({"date", "title"} \subseteq Meta(p).keys)

\* C24: a non-special document without date or title is classified and then
\* left out: it is passed to no page renderer, is not among the parsed posts,
\* is in no list given to an aggregate renderer, has no entry in the new and
\* in the saved manifest; the run goes on over the other documents and, with
\* no I/O fault and a readable 404 page, does not abort.
C24_MissingFieldsExcluded ==
  \A p \in Paths :
    LacksRequiredFields(p) =>
      /\ p \notin RenderedDocs
      /\ p \notin Range(parsed_posts) \cup Range(posts_to_build) \cup Range(queue)
      /\ \A i \in DOMAIN obs.aggCalls : p \notin Range(obs.aggCalls[i][2])
      /\ p \notin DOMAIN new_manifest.posts
      /\ obs.saved => p \notin DOMAIN manifestFile.data.posts
      /\ pc \in {"posts", "save", "done"} => DOMAIN obs.needs_full_build = source_md_paths
      /\ (faults = 0 /\ ~Unreadable(md["404.md"])) => pc # "aborted"

\* C24 witness: a saved run in which a document that had an entry in the
\* loaded manifest lacks the fields, another post was rendered and the
\* aggregate pages were regenerated.
C24_Witness ==
  /\ pc = "done" /\ obs.saved /\ obs.aggCalls # <<>>
  /\ \E p \in Paths : LacksRequiredFields(p) /\ p \in DOMAIN OldPosts
                       /\ p \in DOMAIN obs.needs_full_build
  /\ \E q \in Paths : IsPost(q) /\ q \in RenderedDocs


\* C25 as claimed: the manifest passed to save_manifest has an entry for
\* every document of the current source set and for no other path.
C25_ManifestComplete_Claimed ==
  pc \in {"save", "done"} => DOMAIN new_manifest.posts = source_md_paths

\* C25 as amended: the manifest passed to save_manifest has an entry for
\* every document of the current source set except the non-special documents
\* without date or title, and for no other path; a successful save writes
\* exactly that manifest.
C25_ManifestComplete ==
  pc \in {"save", "done"} =>
    /\ DOMAIN new_manifest.posts = {p \in source_md_paths : ~LacksRequiredFields(p)}
    /\ obs.saved => manifestFile.data = new_manifest

\* C25 witness: a saved run over a source set with an excluded document,
\* after a document of the loaded manifest was deleted.
C25_Witness ==
  /\ pc = "done" /\ obs.saved
  /\ \E p \in Paths : LacksRequiredFields(p)
  /\ Orphans # {}
  /\ new_manifest.posts # EmptyDict


\* C26: for every non-sentinel link of the loaded manifest, the path the
\* cleanups resolve from it is where generate_post_page writes the output of
\* that link, and a cleanup that ran for the link without failing leaves no
\* page of that link on disk (unless the run wrote it anew).
C26_CleanupResolvesGeneratedOutput ==
  /\ \A d \in DOMAIN OldPosts :
       HasRealLink(OldPosts[d]) =>
         CleanupPath(OldPosts[d].link) \in {PostOutputDir(OldPosts[d].link),
                                           PostFile(OldPosts[d].link)}
  /\ \A c \in obs.attempted \ obs.deleteFailed :
       LET L == Get(OldPosts[c[1]], "link", NoLink)
       IN  (L # NoLink /\ \A w \in obs.written : w[2] # PostFile(L))
             => ~exists(site, PostFile(L))


\* the link the run records for a document it gives a manifest entry
NewLink(p) ==
  CASE DocKind(p) = "404" -> LINK_404
    [] DocKind(p) \in {"about", "hidden"} -> LINK_HIDDEN
    [] OTHER -> LinkOf(p)

\* a surviving document whose loaded entry has a non-sentinel link that
\* differs from the link the run computes for it
LinkChanged(p) ==
  /\ Exists(md[p]) /\ DocKind(p) # "skipped"
  /\ p \in DOMAIN OldPosts
  /\ HasRealLink(OldPosts[p])
  /\ OldPosts[p].link # NewLink(p)

\* C27: once the document loop is over, for every surviving document whose
\* link changed, also one that turned from a regular post into a hidden page
\* or a 404 page, the cleanup of the location resolved from the old link was
\* run and, unless the deletion failed, nothing is left there.
C27_OldLocationDeletedOnLinkChange ==
  pc \in {"posts", "save", "done"} =>
    \A p \in Paths :
      LinkChanged(p) =>
        LET old_html_dir == CleanupPath(OldPosts[p].link)
        IN  /\ <<p, old_html_dir>> \in obs.attempted
            /\ <<p, old_html_dir>> \notin obs.deleteFailed => ~exists(site, old_html_dir)


\* a page of a regular post has been written in this run
PostPageWritten == \E w \in obs.written : IsPost(w[1])

\* C28: within a run, once a page of a regular post has been written no
\* cleanup (slug-rename or orphan) is run any more and nothing is deleted
\* from the output tree: all deletions come before the first such write, so
\* none of them can remove an output of the same run.
C28_CleanupsBeforePostPages ==
  [][(PostPageWritten /\ pc' # "idle") =>
       /\ obs'.attempted = obs.attempted
       /\ obs'.removed = obs.removed
       /\ obs'.deleteFailed = obs.deleteFailed
       /\ DOMAIN site \subseteq DOMAIN site']_vars

\* C28 witness: a finished run in which a document was deleted and another
\* document took over its slug: the cleanup for the deleted path removed the
\* old output of the link, and the page the run wrote for the same link is
\* on disk.
C28_Witness ==
  /\ pc = "done"
  /\ \E c \in obs.removed, w \in obs.written :
       /\ c[1] \in Orphans
       /\ IsPost(w[1])
       /\ w[2] = PostFile(OldPosts[c[1]].link)
       /\ exists(site, w[2])


\* the run got past load_manifest
RunStarted == pc # "idle" /\ obs.raised # "UnicodeDecodeError"

\* C29: from the theme check to the end of the run theme_changed has one
\* value: true exactly when a theme dependency that exists on disk has a
\* hash different from the one the loaded manifest stores for it (none stored
\* counts as different).  Every document is classified with that value: a
\* document with a page is regenerated exactly when it needs a full build or
\* that value is true (in a run that was not ended by the KeyError of an
\* unreadable 404 page).
C29_ThemeChangedOncePerRun ==
  RunStarted =>
    /\ theme_changed = ThemeDependencyChanged
    /\ \A p \in DOMAIN obs.needs_full_build :
         (HasPage(p) /\ obs.raised # "KeyError" /\ (~IsPost(p) \/ pc \in {"save", "done"}))
           => (p \in RenderedDocs <=> (obs.needs_full_build[p] \/ ThemeDependencyChanged))

\* C29 witness: a finished run from a saved manifest in which the only
\* difference is a dependency the manifest has no hash for, and an unchanged
\* post and the unchanged 404 page were regenerated.
C29_Witness ==
  /\ pc = "done" /\ obs.loaded = "ok" /\ theme_changed
  /\ \E t \in ThemeFiles :
       /\ Exists(theme[t]) /\ StoredThemeHash(old_manifest, t) = -1
       /\ \A u \in ThemeFiles \ {t} :
            Exists(theme[u]) => StoredThemeHash(old_manifest, u) = get_full_content_hash(theme[u])
  /\ \E p, q \in Paths :
       /\ IsPost(p) /\ UnchangedSinceManifest(p) /\ p \in RenderedDocs
       /\ DocKind(q) = "404" /\ UnchangedSinceManifest(q) /\ q \in RenderedDocs


\* a theme dependency the loaded manifest has a hash for and that is no
\* longer on disk
RemovedDependency(t) == ~Exists(theme[t]) /\ StoredThemeHash(old_manifest, t) # -1

\* the manifest holds a hash for the dependency
HoldsThemeHash(m, t) == StoredThemeHash(m, t) # -1

\* C30: a removed theme dependency does not set theme_changed (when no
\* dependency on disk differs from the loaded manifest, theme_changed is
\* false and only documents that need a full build are regenerated); the new
\* and the saved manifest hold no hash for it; and a dependency on disk for
\* which the loaded manifest holds no hash, as after such a run, sets
\* theme_changed whatever its bytes.
C30_RemovedDependency ==
  RunStarted =>
    /\ ((\E t \in ThemeFiles : RemovedDependency(t)) /\ ~ThemeDependencyChanged) =>
         /\ ~theme_changed
         /\ \A p \in RenderedDocs : obs.needs_full_build[p]
    /\ \A t \in ThemeFiles :
         ~Exists(theme[t]) =>
           /\ ~HoldsThemeHash(new_manifest, t)
           /\ obs.saved => ~HoldsThemeHash(manifestFile.data, t)
    /\ \A t \in ThemeFiles :
         (Exists(theme[t]) /\ ~HoldsThemeHash(old_manifest, t)) => theme_changed

\* C30 witness: a finished run in which a dependency is back with the bytes
\* it had at the start, after a run without it saved a manifest that holds
\* the hashes of the other dependencies and none for it; an unchanged post
\* was regenerated.
C30_Witness ==
  /\ pc = "done" /\ obs.loaded = "ok" /\ obs.prevRun.outcome = "saved"
  /\ HoldsThemeHash(old_manifest, base_template_source)
  /\ \E t \in ThemeFiles :
       /\ theme[t] = 1 /\ ~HoldsThemeHash(old_manifest, t)
       /\ \A u \in ThemeFiles \ {t} :
            StoredThemeHash(old_manifest, u) = get_full_content_hash(theme[u])
  /\ theme_changed
  /\ \E p \in Paths : IsPost(p) /\ UnchangedSinceManifest(p) /\ p \in RenderedDocs


\* no document occurs twice among the documents passed to a page renderer
RenderedAtMostOnce ==
  \A i, j \in DOMAIN obs.rendered : obs.rendered[i] = obs.rendered[j] => i = j

\* C31: once the document loop of a run with theme_changed is over,
\* posts_to_build holds every parsed post, which are all regular posts of the
\* source set, so that posts_to_build_all differs from it in order at most;
\* and in every run no document is passed to a page renderer twice.
C31_WideningKeepsTheSet ==
  /\ (RunStarted /\ theme_changed /\ pc \in {"posts", "save", "done"}) =>
       /\ Range(posts_to_build) = Range(parsed_posts)
       /\ Range(posts_to_build) = {p \in Paths : IsPost(p)}
       /\ Len(posts_to_build) = Len(final_parsed_posts)
       /\ pc \in {"save", "done"} =>
            {p \in RenderedDocs : IsPost(p)} = Range(posts_to_build)
  /\ RenderedAtMostOnce

\* C31 witness: a finished run from a saved manifest with a changed theme
\* dependency over two unchanged posts, which were rendered in date order,
\* the reverse of the order in which the loop met them.
C31_Witness ==
  /\ pc = "done" /\ obs.loaded = "ok" /\ theme_changed
  /\ Len(posts_to_build) = 2
  /\ \A i \in DOMAIN posts_to_build : UnchangedSinceManifest(posts_to_build[i])
  /\ final_parsed_posts # posts_to_build
  /\ SelectSeq(obs.rendered, IsPost) = final_parsed_posts

\* the manifest file on disk was written by the last run, which went through
LastRunSaved ==
  IF pc = "done" THEN obs.saved
  ELSE pc = "idle" /\ prevRun.outcome = "saved"

\* in this run or an earlier one two documents had the same slug
SlugsEverShared ==
  IF prevRun.shared THEN TRUE ELSE pc # "idle" /\ SlugsShared

\* the entries of the manifest file that name a post page
SavedPosts == Get(manifestFile.data, "posts", EmptyDict)
SavedRegular == {p \in DOMAIN SavedPosts : HasRealLink(SavedPosts[p])}

\* C32: when no render, delete or save ever failed, no run was interrupted, no
\* two documents ever had the same slug and the last run saved the manifest,
\* every manifest entry with a post link has its page on disk, rendered from
\* bytes whose hash is the hash of the entry.
C32_OutputFreshness ==
  (faults = 0 /\ ~SlugsEverShared /\ LastRunSaved) =>
    \A p \in SavedRegular :
      /\ exists(site, PostFile(SavedPosts[p].link))
      /\ site[PostFile(SavedPosts[p].link)].hash = SavedPosts[p].hash

\* C32 witness: the second of two saved runs is over; one post was edited
\* between the runs and rendered again, another was left alone and not
\* rendered, and both have their entry in the saved manifest.
C32_Witness ==
  /\ pc = "done" /\ obs.saved /\ faults = 0 /\ ~SlugsEverShared
  /\ obs.prevRun.outcome = "saved" /\ obs.loaded = "ok"
  /\ \E p, q \in SavedRegular :
       /\ p \in RenderedDocs /\ q \notin RenderedDocs
       /\ p \in DOMAIN OldPosts /\ HasRealLink(OldPosts[p])
       /\ OldPosts[p].hash # SavedPosts[p].hash
       /\ OldPosts[p].link = SavedPosts[p].link

\* the previous/next links in the page on disk of post p are those the
\* navigation loop computes for it over the current documents
NavCurrent(p) ==
  /\ exists(site, PostFile(LinkOf(p)))
  /\ site[PostFile(LinkOf(p))].prev = NavOf(p).prev
  /\ site[PostFile(LinkOf(p))].next = NavOf(p).next

\* C33: after a completed and saved run (no fault ever, no two documents ever
\* with the same slug), the page on disk of every visible post carries the
\* previous/next links of its neighbours in the current date-descending list
\* of visible posts.
C33_NavigationCurrent ==
  (pc = "done" /\ obs.saved /\ faults = 0 /\ ~SlugsEverShared) =>
    \A p \in Range(visible_posts_for_nav) : NavCurrent(p)

\* the tags whose per-tag page exists in the output tree
TagPagesOnDisk == {t \in Range(AllTags) : exists(site, TagFile(t))}

\* C34: after the aggregate renderers of a run ran (no fault ever), the
\* per-tag pages on disk are exactly those of the tags carried by a parsed
\* document of the current source set.
C34_TagPagesAreThoseInUse ==
  (pc \in {"save", "done"} /\ obs.aggregates /\ faults = 0) =>
    TagPagesOnDisk = tag_map_keys

\* the links of the posts that are visible: neither a draft nor hidden
VisibleLinks == Range(Links(visible_posts_for_nav))
\* the post links that a page of the output tree lists
PostLinksListed(f) ==
  {l \in Range(site[f].list) : l # NoLink /\ l[1] = <<POSTS_DIR_NAME, "">>}
\* len(posts) of generate_tags_list_html: the count shown next to tag t
TagCount(t) == Len(sorted_tag(t))

\* the home page, the archive, the sitemap and the feed list visible posts only
ListingsHideDrafts ==
  \A f \in {HomeFile, Append(ArchiveDir, INDEX_HTML), SitemapFile, RssFile} :
    exists(site, f) => PostLinksListed(f) \subseteq VisibleLinks
\* the post pages written by this run link to visible posts only
NavigationHidesDrafts ==
  \A c \in obs.written :
    IsPost(c[1]) => {site[c[2]].prev, site[c[2]].next} \subseteq VisibleLinks \cup {NoLink}
\* the per-tag pages list visible posts only, and the tag index counts them only
TagPagesHideDrafts ==
  \A t \in tag_map_keys :
    /\ exists(site, TagFile(t)) => PostLinksListed(TagFile(t)) \subseteq VisibleLinks
    /\ TagCount(t) = Len(SelectSeq(visible_posts_for_nav, LAMBDA p : t \in Range(Meta(p).tags)))

\* C35: after the aggregate renderers of a run ran (no fault ever), no draft
\* and no hidden document is listed on the home page, the archive, the sitemap
\* or the feed, linked as previous/next from a page written in the run, listed
\* on a per-tag page or counted in the tag index.
C35_DraftsNeverListed ==
  (pc \in {"save", "done"} /\ obs.aggregates /\ faults = 0) =>
    /\ ListingsHideDrafts
    /\ NavigationHidesDrafts
    /\ TagPagesHideDrafts

=============================================================================
